---- MODULE Spec2Model ----
(***************************************************************************)
(* Model of the Weather class of weather.py: the chain of National Weather *)
(* Service requests made by fetch_weather, the unit conversion layer       *)
(* (_to_units, UNIT_MAP, pint), the forecast / current-conditions          *)
(* processors and the public entry point from_zipcode; and of the Weather  *)
(* class of data_collector.py, whose constructor does the fetch.           *)
(*                                                                         *)
(* Python values are modelled as follows.                                  *)
(*   - None is the record None; every value that may be None is a record.  *)
(*   - a float is an exact rational [num, den] (den > 0).                  *)
(*   - a str the code takes apart (removeprefix, replace, lower) is a      *)
(*     sequence of chunks; a str that is only passed around is a string.   *)
(*   - a function that may raise returns [exc, val]: exc is None and val   *)
(*     the value returned, or exc is the exception raised.                 *)
(***************************************************************************)
EXTENDS Integers, Sequences, FiniteSets, TLC

VARIABLES
    obj,    \* the Weather instance the caller holds, or None
    call,   \* the last operation the caller invoked, with its arguments
    calls,  \* the requests issued by that operation, in order, with the responses
    error,  \* the exception that operation raised, or None
    ret     \* the value that operation returned, or None

vars == <<obj, call, calls, error, ret>>

None == [type |-> "NoneType"]

Ok(x) == [exc |-> None, val |-> x]
\* an exception's argument is a chunked string
Exc(type, arg) == [type |-> type, args |-> <<arg>>]
Raise(type, arg) == [exc |-> Exc(type, arg), val |-> None]

Range(s) == {s[i] : i \in DOMAIN s}

----------------------------------------------------------------------------
(* Bounds of the model.                                                    *)

MaxSelLen == 2      \* longest unit-system selector string
MaxPeriods == 2     \* most periods in an hourly forecast response

----------------------------------------------------------------------------
(* str helpers.                                                            *)

\* str.removeprefix on a chunked string
removeprefix(s, p) == IF s # <<>> /\ Head(s) = p THEN Tail(s) ELSE s

\* str.replace on a chunked string: every chunk equal to old becomes new
replace(s, old, new) == [i \in DOMAIN s |-> IF s[i] = old THEN new ELSE s[i]]

\* mutant: lower leaves the letters as they are
lower_unchanged(s) == s

\* str.lower, character by character
LowerChar(c) ==
    CASE c = "F" -> "f"
      [] c = "U" -> "u"
      [] c = "S" -> "s"
      [] c = "M" -> "m"
      [] c = "I" -> "i"
      [] OTHER -> c

lower(s) == [i \in DOMAIN s |-> LowerChar(s[i])]

----------------------------------------------------------------------------
(* Rationals and pint quantities.                                          *)

Num(n) == [num |-> n, den |-> 1]

\* q * a / b + off
Affine(q, a, b, off) == [num |-> q.num * a + off * b * q.den, den |-> q.den * b]

UNIT_NT(base, si, us) == [base |-> base, SI |-> si, US |-> us]

UNIT_MAP ==
    (<<"degC">> :> <<"degree_Celsius", "degree_Celsius", "degree_Fahrenheit">>)
    @@ (<<"km_h-1">> :> <<"kilometer_per_hour", "km / hour", "miles / hour">>)
    @@ (<<"kilometer / hour">> :> <<"kilometer_per_hour", "km / hour", "miles / hour">>)
    @@ (<<"m">> :> <<"meter", "km", "miles">>)
    @@ (<<"Pa">> :> <<"pascal", "mbar", "inHg">>)
    @@ (<<"percent">> :> <<"percent", "percent", "percent">>)
    @@ (<<"degree_(angle)">> :> <<"degree", "degree", "degree">>)

\* {k: UNIT_NT(*v) for k, v in UNIT_MAP.items()}
UNIT_NTS ==
    [k \in DOMAIN UNIT_MAP |-> UNIT_NT(UNIT_MAP[k][1], UNIT_MAP[k][2], UNIT_MAP[k][3])]

\* pint.Quantity(value, units)
Quantity(val, units) == [magnitude |-> val, units |-> units]

\* pint: Quantity.to(target).  Temperature is affine, the others are ratios
\* (1 mile = 1609.344 m, 1 inHg = 3386.389 Pa); percent and degree are kept.
QuantityTo(quant, target) ==
    LET m == quant.magnitude
        u == quant.units
        r == CASE u = "degree_Celsius" /\ target = "degree_Fahrenheit" -> Affine(m, 9, 5, 32)
               [] u \in {"kilometer_per_hour", "kilometer / hour"} /\ target = "miles / hour"
                    -> Affine(m, 15625, 25146, 0)
               [] u = "meter" /\ target = "km" -> Affine(m, 1, 1000, 0)
               [] u = "meter" /\ target = "miles" -> Affine(m, 125, 201168, 0)
               [] u = "pascal" /\ target = "mbar" -> Affine(m, 1, 100, 0)
               [] u = "pascal" /\ target = "inHg" -> Affine(m, 1000, 3386389, 0)
               [] OTHER -> m
    IN  Quantity(r, target)

\* pint: the units of UREG.Quantity(text), formatted with f"{units}"
ParsedUnits ==
    (<<"km", "/hour">> :> "kilometer / hour")
    @@ (<<"kph">> :> "kilometer_per_hour")
    @@ (<<"mph">> :> "mile_per_hour")

\* pint: UREG.Quantity(text) for a text "<number> <unit>"
ParseQuantity(text) ==
    IF text.unit \in DOMAIN ParsedUnits
    THEN Ok(Quantity(Num(text.number), ParsedUnits[text.unit]))
    ELSE Raise("UndefinedUnitError", text.unit)

----------------------------------------------------------------------------
(* Module-level helpers of weather.py.                                     *)

\* k.removeprefix("@") on the keys the service uses
StripAt(k) == CASE k = "@id" -> "id" [] k = "@type" -> "type" [] OTHER -> k

dict_to_nt(name, dct) ==
    LET items == IF "properties" \in DOMAIN dct THEN dct.properties ELSE dct
        keys == {StripAt(k) : k \in DOMAIN items}
    IN  [k \in keys |-> items[CHOOSE j \in DOMAIN items : StripAt(j) = k]]

\* a str that may be None is wrapped, so that it compares with None
Str(chunks) == [str |-> chunks]

----------------------------------------------------------------------------
(* JSON values of the payloads whose type the code tests.                  *)

JObj(value, unitCode) == [json |-> "object", value |-> value, unitCode |-> unitCode]
JStr(s) == [json |-> "string", s |-> s]
JArr(items) == [json |-> "array", items |-> items]

isinstance_dict(v) == v.json = "object"
isinstance_Quantity(v) == "magnitude" \in DOMAIN v

----------------------------------------------------------------------------
(* class Weather.                                                          *)

WEATHER_BASE_URL == "https://api.weather.gov"

\* zoneinfo / datetime: an aware datetime is an instant shown in a zone
datetime(instant, tz) == [instant |-> instant, tz |-> tz]

\* "f", "us": the selectors that mean US units
US_SELECTORS == {<<"f">>, <<"u", "s">>}

\* units or "us"
OrUs(units) == IF units = None \/ units = Str(<<>>) THEN <<"u", "s">> ELSE units.str

__init__(area, units) ==
    [area |-> area,
     zipcode |-> area.zip_code,
     tz |-> area.timezone,
     coords |-> <<area.lat, area.long>>,
     units |-> IF lower(OrUs(units)) \in US_SELECTORS THEN "US" ELSE "SI",
     meta |-> None,
     current |-> None,
     station |-> None,
     forecast |-> None,
     suntime |-> None]

\* zipcodes.matching: the records of the postal-code database
ZIP_DB ==
    ("10001" :> << [zip_code |-> "10001", city |-> "New York", lat |-> "40.7484",
                    long |-> "-73.9967", timezone |-> "America/New_York"] >>)
    @@ ("00000" :> << >>)

\* mutant: a postal code without a match gets the first record of the database
area_info_default(zipcode) == Ok(dict_to_nt("area", ZIP_DB["10001"][1]))

area_info(zipcode) ==
    LET matches == ZIP_DB[zipcode]
    IN  IF Len(matches) = 0
        THEN Raise("IndexError", <<"list index out of range">>)
        ELSE Ok(dict_to_nt("area", matches[1]))

\* The request wtr_get sends: the route with the base URL and a leading
\* slash removed, put after the base URL.
wtr_url(route) ==
    <<WEATHER_BASE_URL, "/">> \o removeprefix(removeprefix(route, WEATHER_BASE_URL), "/")

\* wtr_get(route, params, key) when the service answers resp
wtr_get(route, params, key, resp) ==
    LET request == [route |-> route, url |-> wtr_url(route), params |-> params,
                    response |-> resp]
    IN  IF resp.status_code = 200
        THEN [request |-> request, exc |-> None, val |-> resp.json[key]]
        ELSE [request |-> request,
              exc |-> Exc("Exception", <<"weather api fetch error">>),
              val |-> None]

_local_time(self, timestamp) == datetime(timestamp.instant, self.tz)

\* mutant: a null value is converted as 0
_to_units_zero(self, v) ==
    LET val == IF v.value = None THEN [num |-> 0, den |-> 1] ELSE v.value
        code == IF v.unitCode[1] = "unit:" THEN Tail(v.unitCode) ELSE v.unitCode
    IN  IF code \notin DOMAIN UNIT_NTS THEN Raise("KeyError", code)
        ELSE Ok([magnitude |-> val, units |-> UNIT_NTS[code][self.units]])

\* mutant: an unknown unit code gives None instead of a KeyError
_to_units_nodata(self, v) ==
    LET code == IF v.unitCode[1] = "unit:" THEN Tail(v.unitCode) ELSE v.unitCode
    IN  IF v.value = None \/ code \notin DOMAIN UNIT_NTS THEN Ok(None)
        ELSE Ok(QuantityTo(Quantity(v.value, UNIT_NTS[code].base), UNIT_NTS[code][self.units]))

_to_units(self, v) ==
    LET val == v.value
        code == removeprefix(v.unitCode, "unit:")
    IN  IF val = None THEN Ok(val)
        ELSE IF code \notin DOMAIN UNIT_NTS THEN Raise("KeyError", code)
        ELSE LET unit == UNIT_NTS[code]
                 quant == Quantity(val, unit.base)
             IN  Ok(QuantityTo(quant, unit[self.units]))

\* the first exception of a list of results, in list order
FirstExc(rs) == rs[CHOOSE i \in DOMAIN rs : rs[i].exc # None /\ \A j \in 1..(i - 1) : rs[j].exc = None]
AnyExc(rs) == \E i \in DOMAIN rs : rs[i].exc # None

EXCLUDED_FIELDS == {"elevation", "cloud_layers"}

_serialize(data) ==
    LET keys == {k \in DOMAIN data : k \notin EXCLUDED_FIELDS /\ data[k] # None}
    IN  [k \in keys |-> IF isinstance_Quantity(data[k]) THEN data[k].magnitude ELSE data[k]]

\* [{"base": ..., "amount": ...} for c in data["cloudLayers"]]
cloud_layers(self, layers) ==
    [i \in DOMAIN layers |-> _to_units(self, layers[i].base)]

_process_current(self, data) ==
    LET dkeys == {k \in DOMAIN data : isinstance_dict(data[k])}
        conv == [k \in dkeys |-> _to_units(self, data[k])]
        bad == {k \in dkeys : conv[k].exc # None}
        layers == data.cloudLayers.items
        bases == cloud_layers(self, layers)
        obs == [desc |-> data.textDescription,
                timestamp |-> _local_time(self, data.timestamp),
                raw_message |-> data.rawMessage,
                cloud_layers |-> [i \in DOMAIN layers |->
                                    [base |-> bases[i].val, amount |-> layers[i].amount]]]
               @@ [k \in dkeys |-> conv[k].val]
    IN  IF bad # {} THEN conv[CHOOSE k \in bad : TRUE]
        ELSE IF AnyExc(bases) THEN FirstExc(bases)
        ELSE Ok([data |-> _serialize(obs)] @@ obs)

_period(self, per) ==
    LET parsed == ParseQuantity([number |-> per.windSpeed.number,
                                 unit |-> replace(per.windSpeed.unit, "/h", "/hour")])
        key == <<parsed.val.units>>
        temperature == Quantity(Num(per.temperature), "degree_Celsius")
    IN  IF parsed.exc # None THEN parsed
        ELSE IF key \notin DOMAIN UNIT_NTS THEN Raise("KeyError", key)
        ELSE Ok([start_time |-> _local_time(self, per.startTime),
                 end_time |-> _local_time(self, per.endTime),
                 is_daytime |-> per.isDaytime,
                 desc |-> per.shortForecast,
                 temperature |-> QuantityTo(temperature, UNIT_NTS[<<"degC">>][self.units]),
                 wind_direction |-> per.windDirection,
                 wind_speed |-> QuantityTo(parsed.val, UNIT_NTS[key][self.units])])

\* mutant: the periods come out in reverse order
period_list_reversed(self, periods) ==
    [i \in DOMAIN periods |-> _period(self, periods[Len(periods) + 1 - i])]

\* [_period(p) for p in data["periods"]]
period_list(self, periods) == [i \in DOMAIN periods |-> _period(self, periods[i])]

_process_forecast(self, data) ==
    LET elevation == _to_units(self, data.elevation)
        periods == period_list(self, data.periods)
    IN  IF elevation.exc # None THEN elevation
        ELSE IF AnyExc(periods) THEN FirstExc(periods)
        ELSE Ok([elevation |-> elevation.val,
                 generated_at |-> _local_time(self, data.generatedAt),
                 updated_at |-> _local_time(self, data.updateTime),
                 periods |-> [i \in DOMAIN periods |-> periods[i].val]])

\* suntime: Sun(lat, long).get_local_sunrise_time() / get_local_sunset_time()
\* on the day the call is made, as hours since the epoch of the model
SunInstant(area, w, day) == 24 * day + (IF w = "sunrise" THEN 6 ELSE 18)

calc_suntime(self, day) ==
    LET sdct == [w \in {"sunrise", "sunset"} |->
                    datetime(SunInstant(self.area, w, day), self.tz)]
    IN  [self EXCEPT !.suntime = dict_to_nt("suntime", sdct)]

\* The frame of a call of fetch_weather: the instance as mutated so far, the
\* requests issued so far, the local resp of the hourly forecast, the
\* exception raised (None while it runs, and when it returned).  awaiting: the
\* answers rs ran out before the call ended.
Frame(self) ==
    [self |-> self, calls |-> <<>>, resp |-> None, exc |-> None, awaiting |-> FALSE]

Stopped(f) == f.exc # None \/ f.awaiting

\* one wtr_get of the call: the request is issued, and an exception ends the call
Got(f, g) == [f EXCEPT !.calls = Append(@, g.request), !.exc = g.exc]

IndexError == Exc("IndexError", <<"list index out of range">>)

\* route = f"/points/{','.join(self.coords)}"; resp = self.wtr_get(route);
\* self.meta = dict_to_nt("meta", resp)
fetch_points(f, rs) ==
    LET route == <<"/", "points/", f.self.coords[1], ",", f.self.coords[2]>>
        g == wtr_get(route, None, "properties", rs[1])
    IN  IF Stopped(f) THEN f
        ELSE IF Len(rs) < 1 THEN [f EXCEPT !.awaiting = TRUE]
        ELSE IF g.exc # None THEN Got(f, g)
        ELSE [Got(f, g) EXCEPT !.self.meta = dict_to_nt("meta", g.val)]

\* mutant: the daily forecast is requested where the hourly one is due
fetch_hourly_swapped(f, rs) ==
    LET g == wtr_get(f.self.meta.forecast, [units |-> "si"], "properties", rs[2])
    IN  IF Stopped(f) THEN f
        ELSE IF Len(rs) < 2 THEN [f EXCEPT !.awaiting = TRUE]
        ELSE IF g.exc # None THEN Got(f, g)
        ELSE [Got(f, g) EXCEPT !.resp = g.val]

\* resp = self.wtr_get(self.meta.forecastHourly, params={"units": "si"})
fetch_hourly(f, rs) ==
    LET g == wtr_get(f.self.meta.forecastHourly, [units |-> "si"], "properties", rs[2])
    IN  IF Stopped(f) THEN f
        ELSE IF Len(rs) < 2 THEN [f EXCEPT !.awaiting = TRUE]
        ELSE IF g.exc # None THEN Got(f, g)
        ELSE [Got(f, g) EXCEPT !.resp = g.val]

\* imd = self.wtr_get(self.meta.forecast, params=params)["periods"][0]; ...
\* self.forecast = dict_to_nt("forecast", forecast_data | idct)
fetch_daily(f, rs) ==
    LET params == [units |-> IF f.self.units = "US" THEN "us" ELSE "si"]
        g == wtr_get(f.self.meta.forecast, params, "properties", rs[3])
        imd == g.val.periods[1]
        idct == [immediate |-> <<imd.name, ": ", imd.detailedForecast>>]
        forecast_data == _process_forecast(f.self, f.resp)
    IN  IF Stopped(f) THEN f
        ELSE IF Len(rs) < 3 THEN [f EXCEPT !.awaiting = TRUE]
        ELSE IF g.exc # None THEN Got(f, g)
        ELSE IF Len(g.val.periods) = 0 THEN [Got(f, g) EXCEPT !.exc = IndexError]
        ELSE IF forecast_data.exc # None THEN [Got(f, g) EXCEPT !.exc = forecast_data.exc]
        ELSE [Got(f, g) EXCEPT
                !.self.forecast = dict_to_nt("forecast", idct @@ forecast_data.val)]

\* resp = self.wtr_get(self.meta.observationStations, key="features")[0];
\* self.station = dict_to_nt("station", resp)
fetch_station(f, rs) ==
    LET g == wtr_get(f.self.meta.observationStations, None, "features", rs[4])
    IN  IF Stopped(f) THEN f
        ELSE IF Len(rs) < 4 THEN [f EXCEPT !.awaiting = TRUE]
        ELSE IF g.exc # None THEN Got(f, g)
        ELSE IF Len(g.val) = 0 THEN [Got(f, g) EXCEPT !.exc = IndexError]
        ELSE [Got(f, g) EXCEPT !.self.station = dict_to_nt("station", g.val[1])]

\* latest_url = f"{self.station.id}/observations/latest"; resp = self.wtr_get(latest_url);
\* current = self._process_current(resp); self.current = dict_to_nt("current", current)
fetch_latest(f, rs) ==
    LET latest_url == f.self.station.id \o <<"/observations/latest">>
        g == wtr_get(latest_url, None, "properties", rs[5])
        current == _process_current(f.self, g.val)
    IN  IF Stopped(f) THEN f
        ELSE IF Len(rs) < 5 THEN [f EXCEPT !.awaiting = TRUE]
        ELSE IF g.exc # None THEN Got(f, g)
        ELSE IF current.exc # None THEN [Got(f, g) EXCEPT !.exc = current.exc]
        ELSE [Got(f, g) EXCEPT !.self.current = dict_to_nt("current", current.val)]

\* fetch_weather when the service answers the k-th request with rs[k]: the
\* frame at its end, each step taking the frame the step before it left
fetch_weather(self, rs) ==
    CHOOSE f5 \in
        {fetch_latest(f4, rs) : f4 \in
            {fetch_station(f3, rs) : f3 \in
                {fetch_daily(f2, rs) : f2 \in
                    {fetch_hourly(f1, rs) : f1 \in {fetch_points(Frame(self), rs)}}}}}
        : TRUE

\* mutant: the instance is returned although fetch_weather raised
from_zipcode_result_partial(area, f, day) ==
    IF area.exc # None THEN [ret |-> None, calls |-> <<>>, exc |-> area.exc]
    ELSE [ret |-> calc_suntime(f.self, day), calls |-> f.calls, exc |-> None]

\* from_zipcode once area_info gave area and fetch_weather ended with frame f
from_zipcode_result(area, f, day) ==
    IF area.exc # None THEN [ret |-> None, calls |-> <<>>, exc |-> area.exc]
    ELSE IF f.exc # None THEN [ret |-> None, calls |-> f.calls, exc |-> f.exc]
    ELSE [ret |-> calc_suntime(f.self, day), calls |-> f.calls, exc |-> None]

\* from_zipcode when the service answers with rs and the day is day:
\* the value returned, the requests issued, the exception raised
from_zipcode(zipcode, units, rs, day) ==
    CHOOSE r \in {from_zipcode_result(area, f, day) :
                    area \in {area_info(zipcode)},
                    f \in {IF area_info(zipcode).exc # None THEN Frame(None)
                           ELSE fetch_weather(__init__(area_info(zipcode).val, units), rs)}}
        : TRUE

----------------------------------------------------------------------------
(* class Weather of data_collector.py.  Its helpers (area_info, wtr_get,   *)
(* _to_units, _process_forecast, ...) are those of weather.py, statement   *)
(* for statement; its fetch_weather makes the same five requests but keeps *)
(* what it builds in the locals meta, forecast, station and now, and       *)
(* returns them; its __init__ does the fetch.                              *)

\* the attributes __init__ sets before it fetches
collector_attrs(area, units) ==
    [area |-> area,
     zipcode |-> area.zip_code,
     tz |-> area.timezone,
     coords |-> <<area.lat, area.long>>,
     units |-> IF lower(OrUs(units)) \in US_SELECTORS THEN "US" ELSE "SI"]

\* the locals of fetch_weather, which the frame holds beside the instance
collector_locals == [meta |-> None, current |-> None, station |-> None, forecast |-> None]

\* _process_current_conditions: the observation, without a serialized copy
collector_now(current) == [k \in DOMAIN current \ {"data"} |-> current[k]]

\* data = {type(k).__name__: k for k in [meta, station, now, forecast]};
\* return dict_to_nt("data", data)
collector_data(f) ==
    IF Stopped(f) THEN None
    ELSE dict_to_nt("data", [meta |-> f.self.meta,
                             station |-> f.self.station,
                             now |-> collector_now(f.self.current),
                             forecast |-> f.self.forecast])

\* fetch_weather of data_collector.py: the value returned, the requests
\* issued, the exception raised; self is left as it is
collector_fetch_weather(self, rs) ==
    CHOOSE r \in {[data |-> collector_data(f), calls |-> f.calls, exc |-> f.exc]
                    : f \in {fetch_weather(collector_locals @@ self, rs)}}
        : TRUE

\* calc_suntime of data_collector.py returns the suntime
collector_calc_suntime(self, day) ==
    dict_to_nt("suntime", [w \in {"sunrise", "sunset"} |->
                              datetime(SunInstant(self.area, w, day), self.tz)])

\* Weather(area, units) of data_collector.py
collector__init__(area, units, rs, day) ==
    CHOOSE r \in
        {IF d.exc # None THEN [ret |-> None, calls |-> d.calls, exc |-> d.exc]
         ELSE [ret |-> self @@ [data |-> d.data,
                                suntime |-> collector_calc_suntime(self, day)],
               calls |-> d.calls, exc |-> None]
            : self \in {collector_attrs(area, units)},
              d \in {collector_fetch_weather(collector_attrs(area, units), rs)}}
        : TRUE

\* from_zipcode of data_collector.py
collector_from_zipcode(zipcode, units, rs, day) ==
    CHOOSE r \in
        {IF area.exc # None THEN [ret |-> None, calls |-> <<>>, exc |-> area.exc]
         ELSE collector__init__(area.val, units, rs, day)
            : area \in {area_info(zipcode)}}
        : TRUE

\* an instance of the class of data_collector.py
of_data_collector(o) == "data" \in DOMAIN o

----------------------------------------------------------------------------
(* The inputs: the caller's arguments and the answers of the service.      *)

Zipcodes == DOMAIN ZIP_DB

SelectorChars == {"f", "F", "u", "U", "s", "S", "m", "M"}

\* every selector of at most MaxSelLen characters, and None
Selectors ==
    {None} \cup {Str(s) : s \in UNION {[1..n -> SelectorChars] : n \in 0..MaxSelLen}}

\* the selectors the callers of this repository pass (weather_app.py), and None
UsualSelectors == {None, Str(<<"F">>), Str(<<"m">>)}

Days == {1, 2}

Response(status, json) == [status_code |-> status, json |-> json]

FailResponses == {Response(status, None) : status \in {404, 500}}

Url(path) == <<WEATHER_BASE_URL, "/", path>>

JTime(instant) == [json |-> "string", instant |-> instant, tz |-> "UTC"]

\* a unit-tagged field: null or n, under a code of the unit: namespace or another
Readings(code, n) ==
    {JObj(value, unitCode) : value \in {None, Num(n)},
                             unitCode \in {<<"unit:", code>>, <<"wmoUnit:", code>>}}

PointsJson ==
    [properties |->
        [forecastHourly |-> Url("gridpoints/OKX/33,35/forecast/hourly"),
         forecast |-> Url("gridpoints/OKX/33,35/forecast"),
         observationStations |-> Url("gridpoints/OKX/33,35/stations")]]

WindTexts == {[number |-> 13, unit |-> <<"km", "/h">>], [number |-> 8, unit |-> <<"mph">>]}

HourlyPeriod(i, wind) ==
    [startTime |-> JTime(i), endTime |-> JTime(i + 1), isDaytime |-> TRUE,
     shortForecast |-> "Clear", temperature |-> 20 + i, windDirection |-> "NW",
     windSpeed |-> wind]

\* chronological period lists of at most MaxPeriods hours
PeriodLists ==
    UNION {{[i \in 1..n |-> HourlyPeriod(i, winds[i])] : winds \in [1..n -> WindTexts]}
           : n \in 0..MaxPeriods}

HourlyJson ==
    {[properties |-> [elevation |-> e, generatedAt |-> JTime(0), updateTime |-> JTime(0),
                      periods |-> ps]]
        : e \in Readings("m", 100), ps \in PeriodLists}

DailyJson ==
    {[properties |-> [periods |-> ps]]
        : ps \in {<<>>, <<[name |-> "Tonight", detailedForecast |-> "Clear"]>>}}

Feature(station) ==
    [id |-> Url(station), type |-> "Feature",
     properties |-> ("@id" :> Url(station)) @@ [stationIdentifier |-> station]]

StationsJson ==
    {[features |-> fs]
        : fs \in {<<>>, <<Feature("stations/KNYC")>>,
                  <<Feature("stations/KJFK"), Feature("stations/KNYC")>>}}

CloudLayerLists ==
    {<<>>} \cup {<<[base |-> b, amount |-> "FEW"]>> : b \in Readings("m", 1500)}

ObservationJson ==
    {[properties |->
        [temperature |-> t, elevation |-> JObj(Num(10), <<"unit:", "m">>),
         textDescription |-> JStr("Clear"), timestamp |-> JTime(3),
         rawMessage |-> JStr("METAR"), cloudLayers |-> JArr(ls)]]
        : t \in Readings("degC", 22), ls \in CloudLayerLists}

\* the answers the service may give to the k-th request of a fetch
Responses(k) ==
    FailResponses \cup
    {Response(200, json) :
        json \in IF k = 1 THEN {PointsJson}
                 ELSE IF k = 2 THEN HourlyJson
                 ELSE IF k = 3 THEN DailyJson
                 ELSE IF k = 4 THEN StationsJson
                 ELSE ObservationJson}

\* A few of these answers, for the runs in which an instance is used again
\* and again: one failure, and per request payloads that differ in what the
\* processors make of them.
FewHourly ==
    {h \in HourlyJson :
        /\ Len(h.properties.periods) = MaxPeriods
        /\ \A i \in 1..MaxPeriods : h.properties.periods[i].windSpeed.unit = <<"km", "/h">>
        /\ h.properties.elevation.value # None}
    \cup
    {h \in HourlyJson :
        /\ Len(h.properties.periods) = 0
        /\ h.properties.elevation = JObj(None, <<"unit:", "m">>)}

FewObservations ==
    {o \in ObservationJson :
        /\ o.properties.cloudLayers.items = <<>>
        /\ o.properties.temperature.value # None}
    \cup
    {o \in ObservationJson :
        /\ o.properties.cloudLayers.items # <<>>
        /\ o.properties.temperature = JObj(None, <<"unit:", "degC">>)
        /\ o.properties.cloudLayers.items[1].base = JObj(Num(1500), <<"unit:", "m">>)}

FewResponses(k) ==
    {Response(500, None)} \cup
    {Response(200, json) :
        json \in IF k = 1 THEN {PointsJson}
                 ELSE IF k = 2 THEN FewHourly
                 ELSE IF k = 3 THEN {d \in DailyJson : d.properties.periods # <<>>}
                 ELSE IF k = 4 THEN {f \in StationsJson : f.features # <<>>}
                 ELSE FewObservations}

\* the sets of answers to the first, ..., fifth request
AllAnswers == [k \in 1..5 |-> Responses(k)]
FewAnswers == [k \in 1..5 |-> FewResponses(k)]

\* The service answers a request only when it is made: the answers to the
\* requests that fetch_weather issues on self, one more at each round.
MoreAnswers(self, scripts, answers) ==
    UNION {IF fetch_weather(self, rs).awaiting
           THEN {Append(rs, r) : r \in answers[Len(rs) + 1]}
           ELSE {rs} : rs \in scripts}

Scripts(self, answers) ==
    MoreAnswers(self, MoreAnswers(self, MoreAnswers(self, MoreAnswers(self,
        MoreAnswers(self, {<<>>}, answers), answers), answers), answers), answers)

----------------------------------------------------------------------------
(* The state machine: the operations a caller invokes.                     *)

NoCall == [op |-> "none", zipcode |-> "", units |-> None]

Init ==
    /\ obj = None
    /\ call = NoCall
    /\ calls = <<>>
    /\ error = None
    /\ ret = None

\* wtr = Weather.from_zipcode(zipcode, units)
FromZipcode(zipcode, units, answers) ==
    /\ call = NoCall
    /\ call' = [op |-> "from_zipcode", zipcode |-> zipcode, units |-> units]
    /\ \E day \in Days :
       \E rs \in IF area_info(zipcode).exc # None THEN {<<>>}
                 ELSE Scripts(__init__(area_info(zipcode).val, units), answers) :
       \E out \in {from_zipcode(zipcode, units, rs, day)} :
              /\ ret' = out.ret
              /\ obj' = out.ret
              /\ calls' = out.calls
              /\ error' = out.exc

\* wtr = Weather(Weather.area_info(zipcode), units)
Construct(zipcode, units) ==
    /\ call = NoCall
    /\ area_info(zipcode).exc = None
    /\ call' = [op |-> "__init__", zipcode |-> zipcode, units |-> units]
    /\ obj' = __init__(area_info(zipcode).val, units)
    /\ ret' = obj'
    /\ calls' = <<>>
    /\ error' = None

\* wtr.fetch_weather()
FetchWeather(answers) ==
    /\ obj # None
    /\ ~of_data_collector(obj)
    /\ call' = [NoCall EXCEPT !.op = "fetch_weather"]
    /\ \E rs \in Scripts(obj, answers) :
       \E out \in {fetch_weather(obj, rs)} :
              /\ obj' = out.self
              /\ calls' = out.calls
              /\ error' = out.exc
              /\ ret' = None

\* wtr.calc_suntime()
CalcSuntime(day) ==
    /\ obj # None
    /\ ~of_data_collector(obj)
    /\ call' = [NoCall EXCEPT !.op = "calc_suntime"]
    /\ obj' = calc_suntime(obj, day)
    /\ calls' = <<>>
    /\ error' = None
    /\ ret' = None

\* wtr = data_collector.Weather.from_zipcode(zipcode, units)
CollectorFromZipcode(zipcode, units, answers) ==
    /\ call = NoCall
    /\ call' = [op |-> "data_collector.from_zipcode", zipcode |-> zipcode, units |-> units]
    /\ \E day \in Days :
       \E rs \in IF area_info(zipcode).exc # None THEN {<<>>}
                 ELSE Scripts(collector_locals
                                @@ collector_attrs(area_info(zipcode).val, units), answers) :
       \E out \in {collector_from_zipcode(zipcode, units, rs, day)} :
              /\ ret' = out.ret
              /\ obj' = out.ret
              /\ calls' = out.calls
              /\ error' = out.exc

\* data = wtr.fetch_weather() on an instance of data_collector.py
CollectorFetchWeather(answers) ==
    /\ obj # None
    /\ of_data_collector(obj)
    /\ call' = [NoCall EXCEPT !.op = "data_collector.fetch_weather"]
    /\ \E rs \in Scripts(collector_locals @@ obj, answers) :
       \E out \in {collector_fetch_weather(obj, rs)} :
              /\ obj' = obj
              /\ calls' = out.calls
              /\ error' = out.exc
              /\ ret' = out.data

\* suntime = wtr.calc_suntime() on an instance of data_collector.py
CollectorCalcSuntime(day) ==
    /\ obj # None
    /\ of_data_collector(obj)
    /\ call' = [NoCall EXCEPT !.op = "data_collector.calc_suntime"]
    /\ obj' = obj
    /\ calls' = <<>>
    /\ error' = None
    /\ ret' = collector_calc_suntime(obj, day)

\* the caller returns and its locals are dropped (main of weather_app.py)
Discard ==
    /\ call # NoCall
    /\ obj' = None
    /\ call' = NoCall
    /\ calls' = <<>>
    /\ error' = None
    /\ ret' = None

\* An instance used again and again, the service giving a few answers.
Next ==
    \/ \E zipcode \in Zipcodes, units \in UsualSelectors :
          FromZipcode(zipcode, units, FewAnswers)
    \/ \E zipcode \in Zipcodes, units \in UsualSelectors : Construct(zipcode, units)
    \/ FetchWeather(FewAnswers)
    \/ \E day \in Days : CalcSuntime(day)
    \/ \E zipcode \in Zipcodes, units \in UsualSelectors :
          CollectorFromZipcode(zipcode, units, FewAnswers)
    \/ CollectorFetchWeather(FewAnswers)
    \/ \E day \in Days : CollectorCalcSuntime(day)
    \/ Discard

Spec == Init /\ [][Next]_vars

\* One call of an entry point, over every selector and every answer.
NextEntry ==
    \/ \E zipcode \in Zipcodes, units \in UsualSelectors :
          FromZipcode(zipcode, units, AllAnswers)
    \/ \E zipcode \in Zipcodes, units \in Selectors : Construct(zipcode, units)
    \/ \E zipcode \in Zipcodes, units \in Selectors :
          CollectorFromZipcode(zipcode, units, FewAnswers)
    \/ Discard

SpecEntry == Init /\ [][NextEntry]_vars

----------------------------------------------------------------------------
(* Properties.                                                             *)

\* the entry points of the two classes
EntryPoints == {"from_zipcode", "data_collector.from_zipcode"}

IsFetch ==
    call.op \in EntryPoints \cup {"fetch_weather", "data_collector.fetch_weather"}
Success(i) == calls[i].response.status_code = 200
AllSuccess == \A i \in DOMAIN calls : Success(i)
Json(i) == calls[i].response.json

\* the coordinates the fetch was made for
FetchCoords ==
    IF call.op \in EntryPoints
    THEN <<ZIP_DB[call.zipcode][1].lat, ZIP_DB[call.zipcode][1].long>>
    ELSE obj.coords

\* the fixed order of the requests, each keyed off the answer to an earlier one
ExpectedUrl(i) ==
    IF i = 1 THEN <<WEATHER_BASE_URL, "/", "points/", FetchCoords[1], ",", FetchCoords[2]>>
    ELSE IF i = 2 THEN Json(1).properties.forecastHourly
    ELSE IF i = 3 THEN Json(1).properties.forecast
    ELSE IF i = 4 THEN Json(1).properties.observationStations
    ELSE Json(4).features[1].properties["@id"] \o <<"/observations/latest">>

PrefixOfFixedOrder ==
    /\ Len(calls) <= 5
    /\ \A i \in DOMAIN calls : calls[i].url = ExpectedUrl(i)
    /\ \A i \in DOMAIN calls : i < Len(calls) => Success(i)

\* C1 as amended: the requests of a fetch are a prefix of the fixed order
\* (points, hourly forecast, daily forecast, stations, latest observation),
\* nothing is requested after a non-success answer, a fetch that returns has
\* made all five requests and got five successes, and a fetch that stops
\* short either got a non-success answer last or raised while it processed a
\* successful answer (after the third request or later).
C1_RequestPrefix ==
    IsFetch /\ calls # <<>> =>
        /\ PrefixOfFixedOrder
        /\ (~AllSuccess => error # None)
        /\ (error = None => Len(calls) = 5 /\ AllSuccess)
        /\ (Len(calls) < 5 => error # None)
        /\ (error # None /\ AllSuccess => Len(calls) >= 3 /\ error.type # "Exception")

\* C1 witness: a fetch stopped by a non-success answer to its fourth request
C1_Witness ==
    /\ call.op = "fetch_weather"
    /\ Len(calls) = 4
    /\ ~Success(4)
    /\ error # None

\* C1 as stated: the requests are the full five exactly when every answer is
\* a success
C1_FullExactlyWhenAllSucceed ==
    IsFetch /\ calls # <<>> => (PrefixOfFixedOrder /\ (Len(calls) = 5 <=> AllSuccess))

\* the parts of the snapshot an instance of either class holds
Parts(o) ==
    IF of_data_collector(o)
    THEN <<o.data.meta, o.data.forecast, o.data.station, o.data.now, o.suntime>>
    ELSE <<o.meta, o.forecast, o.station, o.current, o.suntime>>

\* C2: from_zipcode (of either class) raises and returns nothing when any of
\* the five requests gets a non-success answer; what it returns comes after
\* five successes and has every part of the snapshot.
C2_NoPartialSnapshot ==
    call.op \in EntryPoints =>
        /\ (~AllSuccess => ret = None /\ error # None /\ obj = None)
        /\ (ret # None =>
              /\ Len(calls) = 5 /\ AllSuccess /\ error = None
              /\ \A i \in 1..5 : Parts(ret)[i] # None)

\* C2 witness: from_zipcode whose fourth request got a non-success answer
C2_Witness ==
    /\ call.op = "from_zipcode"
    /\ Len(calls) = 4
    /\ ~Success(4)
    /\ ret = None

\* C3 as stated: a fetch_weather stopped by a non-success answer of the
\* station lookup leaves meta, forecast, station and current as they were.
C3_StationFailureLeavesFields ==
    [][(call'.op = "fetch_weather" /\ Len(calls') = 4 /\ calls'[4].response.status_code # 200)
        => /\ obj'.meta = obj.meta
           /\ obj'.forecast = obj.forecast
           /\ obj'.station = obj.station
           /\ obj'.current = obj.current]_vars

\* C4 as stated: the error raised for a non-success answer carries the route
\* of the request that failed.
C4_ErrorCarriesRoute ==
    \A i \in DOMAIN calls :
        ~Success(i) =>
            /\ error # None
            /\ \E a \in Range(error.args) : a = calls[i].route \/ a = calls[i].url

\* C5: from_zipcode (of either class) of a postal code without a matching
\* record raises before any request is issued and returns nothing.
C5_NoMatchNoRequest ==
    (call.op \in EntryPoints /\ ZIP_DB[call.zipcode] = <<>>) =>
        /\ calls = <<>>
        /\ ret = None
        /\ obj = None
        /\ error # None

\* C5 witness: from_zipcode was called with a postal code that matches nothing
C5_Witness ==
    /\ call.op = "from_zipcode"
    /\ ZIP_DB[call.zipcode] = <<>>
    /\ error # None

\* the unit-tagged fields of an observation payload
TaggedFields(data) == {k \in DOMAIN data : data[k].json = "object"}

\* C6: a unit-tagged field whose value is null comes out as None, whatever its
\* unit code and the unit system: an observation field is None in
\* current and has no entry in current.data, a cloud-layer base is None,
\* the forecast elevation is None.
C6_NullStaysNoData ==
    (call.op = "from_zipcode" /\ ret # None) =>
        LET data == Json(5).properties
            layers == data.cloudLayers.items
        IN  /\ \A k \in TaggedFields(data) :
                  data[k].value = None =>
                      /\ ret.current[k] = None
                      /\ k \notin DOMAIN ret.current.data
            /\ \A i \in DOMAIN layers :
                  layers[i].base.value = None => ret.current.cloud_layers[i].base = None
            /\ Json(2).properties.elevation.value = None => ret.forecast.elevation = None

\* C6 witness: a snapshot made from a null temperature under an unknown unit
\* code, a null cloud-layer base and a null elevation
C6_Witness ==
    /\ call.op = "from_zipcode"
    /\ ret # None
    /\ Json(5).properties.temperature = JObj(None, <<"wmoUnit:", "degC">>)
    /\ Json(5).properties.cloudLayers.items # <<>>
    /\ Json(5).properties.cloudLayers.items[1].base.value = None
    /\ Json(2).properties.elevation.value = None

\* "f" and "us" in every letter case
RecognizedAnyCase ==
    {<<"f">>, <<"F">>, <<"u", "s">>, <<"U", "s">>, <<"u", "S">>, <<"U", "S">>}

\* C7 as amended: the selector is read without regard to letter case; "f" and
\* "us", and also None and the empty string (replaced by "us"), select US, any
\* other string selects SI; the system is SI or US.
C7_UnitSelector ==
    (call.op \in EntryPoints \cup {"__init__"} /\ obj # None) =>
        /\ obj.units \in {"SI", "US"}
        /\ obj.units = "US" <=>
              \/ call.units = None
              \/ call.units = Str(<<>>)
              \/ call.units.str \in RecognizedAnyCase

\* C7 witness: an instance constructed with the selector "Us"
C7_Witness ==
    /\ call.op = "__init__"
    /\ call.units = Str(<<"U", "s">>)
    /\ obj.units = "US"

\* C7 as stated: only "f" and "us" in any letter case select US; anything
\* else, None included, selects SI.
C7_NoneSelectsMetric ==
    (call.op \in EntryPoints \cup {"__init__"} /\ obj # None) =>
        (obj.units = "US" <=> (call.units # None /\ call.units.str \in RecognizedAnyCase))

\* an instance of weather.py that holds every part of a snapshot
Complete(o) ==
    /\ o # None
    /\ ~of_data_collector(o)
    /\ o.meta # None /\ o.forecast # None /\ o.station # None
    /\ o.current # None /\ o.suntime # None

\* C8 as stated: once an instance holds every part of a snapshot, its unit system,
\* location, meta, forecast, station, current and suntime never change.
C8_SnapshotNeverChanges ==
    [][(Complete(obj) /\ obj' # None) =>
        /\ obj'.units = obj.units
        /\ obj'.area = obj.area
        /\ obj'.meta = obj.meta
        /\ obj'.forecast = obj.forecast
        /\ obj'.station = obj.station
        /\ obj'.current = obj.current
        /\ obj'.suntime = obj.suntime]_vars

\* C9: the periods of the forecast are those of the hourly response, in its
\* order: as many, and the i-th made from the i-th.
C9_PeriodOrder ==
    (call.op = "from_zipcode" /\ ret # None) =>
        LET src == Json(2).properties.periods
            res == ret.forecast.periods
        IN  /\ Len(res) = Len(src)
            /\ \A i \in DOMAIN src :
                  /\ res[i].start_time.instant = src[i].startTime.instant
                  /\ res[i].end_time.instant = src[i].endTime.instant
                  /\ res[i].desc = src[i].shortForecast
                  /\ res[i].wind_direction = src[i].windDirection

\* C9 witness: a snapshot made from an hourly response of several periods
C9_Witness ==
    /\ call.op = "from_zipcode"
    /\ ret # None
    /\ Len(Json(2).properties.periods) >= 2
    /\ Len(ret.forecast.periods) >= 2

\* the unit codes of the registry, under the unit: namespace
KnownCodes ==
    {<<"unit:", c>> : c \in {"degC", "km_h-1", "kilometer / hour", "m", "Pa", "percent",
                             "degree_(angle)"}}

\* a unit-tagged value that is not null and whose unit code is not known
UnknownUnit(v) == v.value # None /\ v.unitCode \notin KnownCodes

\* a wind-speed text in a unit the registry does not know (it knows km/h)
UnknownWind(per) == per.windSpeed.unit # <<"km", "/h">>

HourlyUnknown ==
    /\ Len(calls) >= 3
    /\ \A i \in 1..3 : Success(i)
    /\ Json(3).properties.periods # <<>>
    /\ \/ UnknownUnit(Json(2).properties.elevation)
       \/ \E i \in DOMAIN Json(2).properties.periods :
             UnknownWind(Json(2).properties.periods[i])

ObservationUnknown ==
    /\ Len(calls) = 5
    /\ AllSuccess
    /\ \/ \E k \in TaggedFields(Json(5).properties) : UnknownUnit(Json(5).properties[k])
       \/ \E i \in DOMAIN Json(5).properties.cloudLayers.items :
             UnknownUnit(Json(5).properties.cloudLayers.items[i].base)

\* C10: wherever a unit is looked up (observation fields, cloud-layer bases,
\* forecast elevation, wind-speed text), a value that is not null under an
\* unknown unit makes from_zipcode raise a KeyError and return nothing, and a
\* null value, whatever its unit code, does not make it fail.
C10_UnknownUnitFails ==
    call.op = "from_zipcode" =>
        /\ (HourlyUnknown \/ ObservationUnknown) =>
              ret = None /\ error # None /\ error.type = "KeyError"
        /\ (Len(calls) = 5 /\ AllSuccess /\ ~ObservationUnknown) =>
              ret # None /\ error = None

\* C10 witness: from_zipcode raised a KeyError on the latest observation
C10_Witness ==
    /\ call.op = "from_zipcode"
    /\ ObservationUnknown
    /\ error # None
    /\ ret = None

====
